---- MODULE Spec2Model ----
(***************************************************************************)
(* The Mint contract (Collateralized Debt Positions) as a state machine.   *)
(* Every external function of the contract is one action; a handler is an  *)
(* operator from the contract state (a record of the storage variables,    *)
(* the token balances and the oracle) to a result [ok, st]: ok = FALSE is  *)
(* a revert, and st is then the state at the failing require.              *)
(***************************************************************************)
EXTENDS Integers, Sequences, FiniteSets, TLC

\* ------------------------------------------------------------------ bounds
\* Positions opened in a run, and calls that change the state in a run.
MaxPositions == 2
MaxCalls == 5
MaxTime == 4

\* --------------------------------------------------------------- constants
\* SafeDecimalMath.unit(): one in fixed point (scaled from 10^18 to 10).
unit == 10
\* 2 ** 256 - 1, the lastUpdatedTime of the base token.
MaxUint == 1000000

Zero == "0x0"
Users == {"alice", "bob"}
Privileged == {"factory", "admin"}
Accounts == Users \cup {"collector", "this"}
Tokens == {"BUSD", "kX"}
Address == Tokens \cup {Zero}
PositionIdx == 1..MaxPositions

ZeroConfig == [token |-> Zero, auctionDiscount |-> 0, minCollateralRatio |-> 0, endPrice |-> 0]
ZeroPosition == [idx |-> 0, owner |-> Zero, collateralToken |-> Zero, collateralAmount |-> 0,
                 assetToken |-> Zero, assetAmount |-> 0]
NoLast == [op |-> "none", ok |-> TRUE, sender |-> Zero, idx |-> 0, amount |-> 0,
           pre |-> ZeroPosition, q |-> 0, gross |-> 0, fee |-> 0, residual |-> 0,
           falseRet |-> FALSE, nested |-> ZeroPosition, dirty |-> FALSE]

VARIABLES
  factory,              \* _factory
  collector,            \* _collector
  baseToken,            \* _baseToken
  protocolFeeRate,      \* _protocolFeeRate
  priceExpireTime,      \* _priceExpireTime
  assetConfigMap,
  assetTokenArray,
  idxPositionMap,
  postionIdxArray,
  currentpositionIndex,
  ownerPositionIndex,
  bal,                  \* token balances: bal[token][account]
  minted,               \* per token, total quantity the contract has minted
  burned,               \* per token, total quantity the contract has burned
  oraclePrice,          \* the oracle's price per token
  oracleTime,           \* the oracle's lastUpdatedTime per token
  now,                  \* block.timestamp
  calls,                \* the number of calls that succeeded so far
  moved,                \* whether the price changed while a position was stored
  last                  \* the last call: its arguments and what it did

stVars == <<factory, collector, baseToken, protocolFeeRate, priceExpireTime,
            assetConfigMap, assetTokenArray, idxPositionMap, postionIdxArray,
            currentpositionIndex, ownerPositionIndex, bal, minted, burned>>
envVars == <<oraclePrice, oracleTime, now>>
vars == <<stVars, envVars, calls, moved, last>>

\* The contract state and its environment as one record.
St == [factory |-> factory, collector |-> collector, baseToken |-> baseToken,
       protocolFeeRate |-> protocolFeeRate, priceExpireTime |-> priceExpireTime,
       assetConfigMap |-> assetConfigMap, assetTokenArray |-> assetTokenArray,
       idxPositionMap |-> idxPositionMap, postionIdxArray |-> postionIdxArray,
       currentpositionIndex |-> currentpositionIndex,
       ownerPositionIndex |-> ownerPositionIndex, bal |-> bal,
       minted |-> minted, burned |-> burned,
       oraclePrice |-> oraclePrice, oracleTime |-> oracleTime, now |-> now]

Fail(s) == [ok |-> FALSE, st |-> s, out |-> NoLast]
\* A revert at a require on a transfer: refused is whether the token returned false.
FailTransfer(s, ret) == [ok |-> FALSE, st |-> s, out |-> [NoLast EXCEPT !.falseRet = (ret = "false")]]
Done(s, o) == [ok |-> TRUE, st |-> s, out |-> o]

\* --------------------------------------------------- fixed-point arithmetic
multiplyDecimal(x, y) == (x * y) \div unit
\* The caller checks y # 0: a division by zero reverts.
divideDecimal(x, y) == (x * unit) \div y

Min(a, b) == IF a < b THEN a ELSE b

\* ------------------------------------------------------------------ tokens
\* IERC20.transfer / transferFrom of `token`: "revert" when the sender's balance
\* is too small, "false" when the token refuses the account `deny`, else "true"
\* with the balances moved.
tokenTransfer(s, token, from, to, amount, deny) ==
  IF token \notin Tokens THEN [ret |-> "revert", st |-> s]
  ELSE IF deny \in {from, to} THEN [ret |-> "false", st |-> s]
  ELSE IF s.bal[token][from] < amount THEN [ret |-> "revert", st |-> s]
  ELSE [ret |-> "true",
        st |-> IF from = to THEN s
               ELSE [s EXCEPT !.bal[token] = [@ EXCEPT ![from] = @ - amount,
                                                       ![to] = @ + amount]]]

\* IBEP20Token.mint(to, amount), called by the Mint contract.
tokenMint(s, token, to, amount) ==
  [s EXCEPT !.bal[token][to] = @ + amount, !.minted[token] = @ + amount]

\* IBEP20Token.burn(from, amount), called by the Mint contract.
tokenBurn(s, token, from, amount) ==
  [s EXCEPT !.bal[token][from] = @ - amount, !.burned[token] = @ + amount]

\* ------------------------------------------------------------------ oracle
\* readPrice: the base token is 1 and always fresh.
readPrice(s, token) ==
  IF s.baseToken = token THEN [price |-> unit, lastUpdatedTime |-> MaxUint]
  ELSE [price |-> s.oraclePrice[token], lastUpdatedTime |-> s.oracleTime[token]]

\* queryPrice with the two legs exchanged.
queryPriceExchanged(s, targetAssetToken, denominateAssetToken) ==
  LET t == readPrice(s, targetAssetToken)
      d == readPrice(s, denominateAssetToken)
  IN IF t.price = 0 \/ d.price = 0 THEN [ok |-> FALSE, price |-> 0]
     ELSE IF s.now < s.priceExpireTime THEN [ok |-> FALSE, price |-> 0]
     ELSE IF ~(t.lastUpdatedTime >= s.now - s.priceExpireTime
               /\ d.lastUpdatedTime >= s.now - s.priceExpireTime)
          THEN [ok |-> FALSE, price |-> 0]
     ELSE [ok |-> TRUE, price |-> divideDecimal(d.price, t.price)]

\* queryPrice without the require on the two update times.
queryPriceNoExpiry(s, targetAssetToken, denominateAssetToken) ==
  LET t == readPrice(s, targetAssetToken)
      d == readPrice(s, denominateAssetToken)
  IN IF t.price = 0 \/ d.price = 0 THEN [ok |-> FALSE, price |-> 0]
     ELSE IF s.now < s.priceExpireTime THEN [ok |-> FALSE, price |-> 0]
     ELSE [ok |-> TRUE, price |-> divideDecimal(t.price, d.price)]

\* queryPrice(target, denominate): ok = FALSE is a revert.
queryPrice(s, targetAssetToken, denominateAssetToken) ==
  LET t == readPrice(s, targetAssetToken)
      d == readPrice(s, denominateAssetToken)
  IN IF t.price = 0 \/ d.price = 0 THEN [ok |-> FALSE, price |-> 0]
     ELSE IF s.now < s.priceExpireTime THEN [ok |-> FALSE, price |-> 0]
     ELSE IF ~(t.lastUpdatedTime >= s.now - s.priceExpireTime
               /\ d.lastUpdatedTime >= s.now - s.priceExpireTime)
          THEN [ok |-> FALSE, price |-> 0]
     ELSE [ok |-> TRUE, price |-> divideDecimal(t.price, d.price)]

\* ------------------------------------------------------------ storage helpers
InSeq(x, seq) == \E i \in 1..Len(seq) : seq[i] = x

saveAssetConfig(s, assetToken, assetConfig) ==
  [s EXCEPT !.assetTokenArray = IF InSeq(assetToken, @) THEN @ ELSE Append(@, assetToken),
            !.assetConfigMap[assetToken] = assetConfig]

\* savePosition that appends the index and does not write the position.
savePositionIndexOnly(s, positionIndex, position) ==
  [s EXCEPT !.postionIdxArray = IF InSeq(positionIndex, @) THEN @ ELSE Append(@, positionIndex)]

savePosition(s, positionIndex, position) ==
  [s EXCEPT !.postionIdxArray = IF InSeq(positionIndex, @) THEN @ ELSE Append(@, positionIndex),
            !.idxPositionMap[positionIndex] = position]

\* removePosition's loop from position i on: the matching entry takes the last
\* entry's value and the last entry is zeroed (delete), the length stays.
RECURSIVE removeLoop(_, _, _)
removeLoop(arr, positionIndex, i) ==
  IF i > Len(arr) THEN arr
  ELSE IF arr[i] = positionIndex
       THEN removeLoop([[arr EXCEPT ![i] = arr[Len(arr)]] EXCEPT ![Len(arr)] = 0],
                       positionIndex, i + 1)
       ELSE removeLoop(arr, positionIndex, i + 1)

\* removePosition that also hands the freed index back to the counter.
removePositionFreesIndex(s, positionIndex) ==
  [s EXCEPT !.idxPositionMap[positionIndex] = ZeroPosition,
            !.postionIdxArray = removeLoop(@, positionIndex, 1),
            !.currentpositionIndex = positionIndex]

\* removePosition that also clears the owner's secondary-index entry.
removePositionClearsEntry(s, positionIndex) ==
  LET p == s.idxPositionMap[positionIndex]
  IN [s EXCEPT !.idxPositionMap[positionIndex] = ZeroPosition,
               !.postionIdxArray = removeLoop(@, positionIndex, 1),
               !.ownerPositionIndex =
                  [k \in DOMAIN @ |->
                     IF k = <<p.owner, p.collateralToken, p.assetToken>> THEN 0 ELSE @[k]]]

removePosition(s, positionIndex) ==
  [s EXCEPT !.idxPositionMap[positionIndex] = ZeroPosition,
            !.postionIdxArray = removeLoop(@, positionIndex, 1)]

\* ---------------------------------------------------------------- registry
onlyFactoryOrOwner(s, sender) == s.factory = sender \/ sender = "admin"

\* onlyOwner: the owner set by __Ownable_init is the deployer, "admin".
onlyOwner(sender) == sender = "admin"

\* updateConfig: _updateConfig stores the six values without checking any (the
\* oracle is the one oracle of the model).
updateConfig(s, sender, factory_, collector_, baseToken_, protocolFeeRate_, priceExpireTime_) ==
  IF ~onlyOwner(sender) THEN Fail(s)
  ELSE Done([s EXCEPT !.factory = factory_, !.collector = collector_,
                      !.baseToken = baseToken_, !.protocolFeeRate = protocolFeeRate_,
                      !.priceExpireTime = priceExpireTime_], NoLast)

\* _saveAsset without assertMinCollateralRatio.
_saveAssetAnyRatio(s, assetToken, auctionDiscount, minCollateralRatio) ==
  IF assetToken = Zero THEN Fail(s)
  ELSE IF ~(auctionDiscount <= unit) THEN Fail(s)
  ELSE Done(saveAssetConfig(s, assetToken,
              [s.assetConfigMap[assetToken] EXCEPT !.auctionDiscount = auctionDiscount,
                                                   !.minCollateralRatio = minCollateralRatio,
                                                   !.token = assetToken]), NoLast)

\* _saveAsset writing a fresh config: endPrice is reset.
_saveAssetFresh(s, assetToken, auctionDiscount, minCollateralRatio) ==
  IF assetToken = Zero THEN Fail(s)
  ELSE IF ~(auctionDiscount <= unit) THEN Fail(s)
  ELSE IF ~(minCollateralRatio >= unit) THEN Fail(s)
  ELSE Done(saveAssetConfig(s, assetToken,
              [ZeroConfig EXCEPT !.auctionDiscount = auctionDiscount,
                                 !.minCollateralRatio = minCollateralRatio,
                                 !.token = assetToken]), NoLast)

_saveAsset(s, assetToken, auctionDiscount, minCollateralRatio) ==
  IF assetToken = Zero THEN Fail(s)
  ELSE IF ~(auctionDiscount <= unit) THEN Fail(s)
  ELSE IF ~(minCollateralRatio >= unit) THEN Fail(s)
  ELSE Done(saveAssetConfig(s, assetToken,
              [s.assetConfigMap[assetToken] EXCEPT !.auctionDiscount = auctionDiscount,
                                                   !.minCollateralRatio = minCollateralRatio,
                                                   !.token = assetToken]), NoLast)

updateAsset(s, sender, assetToken, auctionDiscount, minCollateralRatio) ==
  IF ~onlyFactoryOrOwner(s, sender) THEN Fail(s)
  ELSE _saveAsset(s, assetToken, auctionDiscount, minCollateralRatio)

\* registerAsset without the require on the stored token.
registerAssetAgain(s, sender, assetToken, auctionDiscount, minCollateralRatio) ==
  IF ~onlyFactoryOrOwner(s, sender) THEN Fail(s)
  ELSE _saveAsset(s, assetToken, auctionDiscount, minCollateralRatio)

registerAsset(s, sender, assetToken, auctionDiscount, minCollateralRatio) ==
  IF ~onlyFactoryOrOwner(s, sender) THEN Fail(s)
  ELSE IF s.assetConfigMap[assetToken].token # Zero THEN Fail(s)
  ELSE _saveAsset(s, assetToken, auctionDiscount, minCollateralRatio)

registerMigration(s, sender, assetToken, endPrice) ==
  IF ~onlyFactoryOrOwner(s, sender) THEN Fail(s)
  ELSE IF assetToken = Zero THEN Fail(s)
  ELSE Done(saveAssetConfig(s, assetToken,
              [s.assetConfigMap[assetToken] EXCEPT !.endPrice = endPrice,
                                                   !.minCollateralRatio = unit]), NoLast)

\* ------------------------------------------------------------ openPosition
\* openPosition without the require on mintAmount.
openPositionAnyMint(s, sender, collateralToken, collateralAmount, assetToken, collateralRatio, deny) ==
  IF collateralToken = Zero \/ assetToken = Zero \/ ~(collateralAmount > 0) THEN Fail(s)
  ELSE
  LET t == tokenTransfer(s, collateralToken, sender, "this", collateralAmount, deny)
      assetConfig == s.assetConfigMap[assetToken]
      rp == queryPrice(t.st, collateralToken, assetToken)
      mintAmount == divideDecimal(multiplyDecimal(collateralAmount, rp.price), collateralRatio)
      position == [idx |-> s.currentpositionIndex, owner |-> sender,
                   collateralToken |-> collateralToken, collateralAmount |-> collateralAmount,
                   assetToken |-> assetToken, assetAmount |-> mintAmount]
      s1 == savePosition(t.st, position.idx, position)
      s2 == [s1 EXCEPT !.currentpositionIndex = @ + 1]
      s3 == tokenMint(s2, assetToken, sender, mintAmount)
      s4 == [s3 EXCEPT !.ownerPositionIndex[<<sender, collateralToken, assetToken>>] = position.idx]
  IN IF t.ret # "true" THEN FailTransfer(t.st, t.ret)
     ELSE IF assetConfig.token # assetToken THEN Fail(t.st)
     ELSE IF assetConfig.endPrice # 0 THEN Fail(t.st)
     ELSE IF ~(assetConfig.minCollateralRatio > 0) THEN Fail(t.st)
     ELSE IF ~(collateralRatio >= assetConfig.minCollateralRatio) THEN Fail(t.st)
     ELSE IF ~rp.ok THEN Fail(t.st)
     ELSE Done(s4, [NoLast EXCEPT !.pre = position, !.q = mintAmount])

openPosition(s, sender, collateralToken, collateralAmount, assetToken, collateralRatio, deny) ==
  IF collateralToken = Zero \/ assetToken = Zero \/ ~(collateralAmount > 0) THEN Fail(s)
  ELSE
  LET t == tokenTransfer(s, collateralToken, sender, "this", collateralAmount, deny)
      assetConfig == s.assetConfigMap[assetToken]
      rp == queryPrice(t.st, collateralToken, assetToken)
      mintAmount == divideDecimal(multiplyDecimal(collateralAmount, rp.price), collateralRatio)
      position == [idx |-> s.currentpositionIndex, owner |-> sender,
                   collateralToken |-> collateralToken, collateralAmount |-> collateralAmount,
                   assetToken |-> assetToken, assetAmount |-> mintAmount]
      s1 == savePosition(t.st, position.idx, position)
      s2 == [s1 EXCEPT !.currentpositionIndex = @ + 1]
      s3 == tokenMint(s2, assetToken, sender, mintAmount)
      s4 == [s3 EXCEPT !.ownerPositionIndex[<<sender, collateralToken, assetToken>>] = position.idx]
  IN IF t.ret # "true" THEN FailTransfer(t.st, t.ret)
     ELSE IF assetConfig.token # assetToken THEN Fail(t.st)
     ELSE IF assetConfig.endPrice # 0 THEN Fail(t.st)
     ELSE IF ~(assetConfig.minCollateralRatio > 0) THEN Fail(t.st)
     ELSE IF ~(collateralRatio >= assetConfig.minCollateralRatio) THEN Fail(t.st)
     ELSE IF ~rp.ok THEN Fail(t.st)
     ELSE IF ~(mintAmount > 0) THEN Fail(t.st)
     ELSE Done(s4, [NoLast EXCEPT !.pre = position, !.q = mintAmount])

\* ----------------------------------------------------------------- deposit
assertCollateral(positionCollateralToken, collateralToken, collateralAmount) ==
  positionCollateralToken = collateralToken /\ collateralAmount # 0

assertAsset(postionAssetToken, assetToken, assetAmount) ==
  assetToken = postionAssetToken /\ assetAmount > 0

assertMigratedAsset(endPrice) == endPrice = 0

\* deposit without the require on the position's owner.
depositByAnyone(s, sender, positionIndex, collateralToken, collateralAmount, deny) ==
  LET position == s.idxPositionMap[positionIndex]
      assetConfig == s.assetConfigMap[position.assetToken]
      t == tokenTransfer(s, collateralToken, sender, "this", collateralAmount, deny)
      newPosition == [position EXCEPT !.collateralAmount = @ + collateralAmount]
  IN IF collateralToken = Zero \/ ~(positionIndex > 0) THEN Fail(s)
     ELSE IF ~assertCollateral(position.collateralToken, collateralToken, collateralAmount) THEN Fail(s)
     ELSE IF ~assertMigratedAsset(assetConfig.endPrice) THEN Fail(s)
     ELSE IF t.ret # "true" THEN FailTransfer(t.st, t.ret)
     ELSE Done(savePosition(t.st, positionIndex, newPosition), [NoLast EXCEPT !.pre = position])

\* deposit that also writes off the position's debt.
depositResetsDebt(s, sender, positionIndex, collateralToken, collateralAmount, deny) ==
  LET position == s.idxPositionMap[positionIndex]
      assetConfig == s.assetConfigMap[position.assetToken]
      t == tokenTransfer(s, collateralToken, sender, "this", collateralAmount, deny)
      newPosition == [position EXCEPT !.collateralAmount = @ + collateralAmount,
                                      !.assetAmount = 0]
  IN IF collateralToken = Zero \/ ~(positionIndex > 0) THEN Fail(s)
     ELSE IF position.owner # sender THEN Fail(s)
     ELSE IF ~assertCollateral(position.collateralToken, collateralToken, collateralAmount) THEN Fail(s)
     ELSE IF ~assertMigratedAsset(assetConfig.endPrice) THEN Fail(s)
     ELSE IF t.ret # "true" THEN FailTransfer(t.st, t.ret)
     ELSE Done(savePosition(t.st, positionIndex, newPosition), [NoLast EXCEPT !.pre = position])

deposit(s, sender, positionIndex, collateralToken, collateralAmount, deny) ==
  LET position == s.idxPositionMap[positionIndex]
      assetConfig == s.assetConfigMap[position.assetToken]
      t == tokenTransfer(s, collateralToken, sender, "this", collateralAmount, deny)
      newPosition == [position EXCEPT !.collateralAmount = @ + collateralAmount]
  IN IF collateralToken = Zero \/ ~(positionIndex > 0) THEN Fail(s)
     ELSE IF position.owner # sender THEN Fail(s)
     ELSE IF ~assertCollateral(position.collateralToken, collateralToken, collateralAmount) THEN Fail(s)
     ELSE IF ~assertMigratedAsset(assetConfig.endPrice) THEN Fail(s)
     ELSE IF t.ret # "true" THEN FailTransfer(t.st, t.ret)
     ELSE Done(savePosition(t.st, positionIndex, newPosition), [NoLast EXCEPT !.pre = position])

\* ---------------------------------------------------------------- withdraw
withdraw(s, sender, positionIndex, collateralToken, withdrawAmount, deny) ==
  LET position == s.idxPositionMap[positionIndex]
      assetConfig == s.assetConfigMap[position.assetToken]
      rp == queryPrice(s, position.collateralToken, position.assetToken)
      newCollateralAmount == position.collateralAmount - withdrawAmount
      assetValueInCollateralAsset == multiplyDecimal(position.assetAmount, rp.price)
      newPosition == [position EXCEPT !.collateralAmount = newCollateralAmount]
      s1 == IF newPosition.collateralAmount = 0 /\ newPosition.assetAmount = 0
            THEN removePosition(s, positionIndex)
            ELSE savePosition(s, positionIndex, newPosition)
      protocolFee == multiplyDecimal(withdrawAmount, s.protocolFeeRate)
      t1 == tokenTransfer(s1, collateralToken, "this", sender, withdrawAmount - protocolFee, deny)
      t2 == tokenTransfer(t1.st, collateralToken, "this", s.collector, protocolFee, deny)
  IN IF collateralToken = Zero THEN Fail(s)
     ELSE IF position.owner # sender THEN Fail(s)
     ELSE IF ~assertCollateral(position.collateralToken, collateralToken, withdrawAmount) THEN Fail(s)
     ELSE IF ~(position.collateralAmount >= withdrawAmount) THEN Fail(s)
     ELSE IF ~rp.ok THEN Fail(s)
     ELSE IF ~(multiplyDecimal(assetValueInCollateralAsset, assetConfig.minCollateralRatio)
               <= newCollateralAmount) THEN Fail(s)
     ELSE IF ~(s.protocolFeeRate > 0) THEN Fail(s1)
     ELSE IF protocolFee > withdrawAmount THEN Fail(s1)
     ELSE IF t1.ret # "true" THEN FailTransfer(t1.st, t1.ret)
     ELSE IF t2.ret # "true" THEN FailTransfer(t2.st, t2.ret)
     ELSE Done(t2.st, [NoLast EXCEPT !.pre = position, !.gross = withdrawAmount,
                                     !.fee = protocolFee])

\* -------------------------------------------------------------------- mint
mint(s, sender, positionIndex, assetToken, assetAmount) ==
  LET position == s.idxPositionMap[positionIndex]
      assetConfig == s.assetConfigMap[position.assetToken]
      rp == queryPrice(s, position.collateralToken, position.assetToken)
      newAssetAmount == assetAmount + position.assetAmount
      assetValueInCollateralAsset == multiplyDecimal(newAssetAmount, rp.price)
      newPosition == [position EXCEPT !.assetAmount = @ + assetAmount]
      s1 == savePosition(s, positionIndex, newPosition)
  IN IF assetToken = Zero THEN Fail(s)
     ELSE IF position.owner # sender THEN Fail(s)
     ELSE IF ~assertAsset(position.assetToken, assetToken, assetAmount) THEN Fail(s)
     ELSE IF ~assertMigratedAsset(assetConfig.endPrice) THEN Fail(s)
     ELSE IF ~rp.ok THEN Fail(s)
     ELSE IF ~(multiplyDecimal(assetValueInCollateralAsset, assetConfig.minCollateralRatio)
               <= position.collateralAmount) THEN Fail(s)
     ELSE IF assetConfig.token \notin Tokens THEN Fail(s1)
     ELSE Done(tokenMint(s1, assetConfig.token, sender, assetAmount),
               [NoLast EXCEPT !.pre = position, !.q = assetAmount])

\* ----------------------------------------------------------- closePosition
\* closePosition up to and including the transfer of the collateral to the
\* owner (lines 289-302): ok = FALSE is a revert.
closeHead(s, sender, positionIndex, deny) ==
  LET position == s.idxPositionMap[positionIndex]
      t0 == tokenTransfer(s, position.assetToken, sender, "this", position.assetAmount, deny)
      s1 == tokenBurn(t0.st, position.assetToken, "this", position.assetAmount)
      withdrawAmount == position.collateralAmount
      protocolFee == multiplyDecimal(withdrawAmount, s.protocolFeeRate)
      t1 == tokenTransfer(s1, position.collateralToken, "this", sender,
                          withdrawAmount - protocolFee, deny)
  IN IF ~(position.assetAmount > 0 /\ position.assetToken # Zero
          /\ position.collateralAmount > 0) THEN Fail(s)
     ELSE IF position.owner # sender THEN Fail(s)
     ELSE IF t0.ret # "true" THEN FailTransfer(t0.st, t0.ret)
     ELSE IF protocolFee > withdrawAmount THEN Fail(s1)
     ELSE IF t1.ret # "true" THEN FailTransfer(t1.st, t1.ret)
     ELSE Done(t1.st, [NoLast EXCEPT !.pre = position, !.gross = withdrawAmount,
                                     !.fee = protocolFee])

\* closeTail without the delete of the owner's secondary-index entry.
closeTailKeepsIndex(s, sender, positionIndex, position, protocolFee, deny, out) ==
  LET t2 == tokenTransfer(s, position.collateralToken, "this", s.collector, protocolFee, deny)
      s3 == removePosition(t2.st, positionIndex)
  IN IF t2.ret # "true" THEN FailTransfer(t2.st, t2.ret)
     ELSE Done(s3, out)

\* closeTail that deletes the secondary-index entry only when it names the
\* closed position.
closeTailClearsIfNamed(s, sender, positionIndex, position, protocolFee, deny, out) ==
  LET t2 == tokenTransfer(s, position.collateralToken, "this", s.collector, protocolFee, deny)
      s3 == removePosition(t2.st, positionIndex)
      key == <<sender, position.collateralToken, position.assetToken>>
      s4 == IF s3.ownerPositionIndex[key] = positionIndex
            THEN [s3 EXCEPT !.ownerPositionIndex[key] = 0] ELSE s3
  IN IF t2.ret # "true" THEN FailTransfer(t2.st, t2.ret)
     ELSE Done(s4, out)

\* closePosition from the transfer to the collector on (lines 305-311), for the
\* position and fee the head read.
closeTail(s, sender, positionIndex, position, protocolFee, deny, out) ==
  LET t2 == tokenTransfer(s, position.collateralToken, "this", s.collector, protocolFee, deny)
      s3 == removePosition(t2.st, positionIndex)
      s4 == [s3 EXCEPT !.ownerPositionIndex[<<sender, position.collateralToken,
                                               position.assetToken>>] = 0]
  IN IF t2.ret # "true" THEN FailTransfer(t2.st, t2.ret)
     ELSE Done(s4, out)

\* closePosition(positionIndex). The function is not nonReentrant and pays the
\* collateral before it removes the position: with hook, the collateral token's
\* transfer calls the recipient, who calls closePosition(positionIndex) again
\* before the outer call goes on (a revert of the nested call reverts the outer).
closePosition(s, sender, positionIndex, deny, hook) ==
  LET h == closeHead(s, sender, positionIndex, deny)
      nh == closeHead(h.st, sender, positionIndex, deny)
      nt == closeTail(nh.st, sender, positionIndex, nh.out.pre, nh.out.fee, deny, nh.out)
      mid == IF hook THEN nt.st ELSE h.st
      out == IF hook THEN [h.out EXCEPT !.nested = h.st.idxPositionMap[positionIndex]]
             ELSE h.out
  IN IF ~h.ok THEN h
     ELSE IF hook /\ ~nh.ok THEN Fail(nh.st)
     ELSE IF hook /\ ~nt.ok THEN Fail(nt.st)
     ELSE closeTail(mid, sender, positionIndex, h.out.pre, h.out.fee, deny, out)

\* ----------------------------------------------------------------- auction
\* isValidPostion with > for >=.
isValidPostionStrict(s, position, assetPrice) ==
  LET value == multiplyDecimal(position.assetAmount, assetPrice)
  IN IF value = 0 THEN [ok |-> FALSE, valid |-> FALSE]
     ELSE [ok |-> TRUE,
           valid |-> divideDecimal(position.collateralAmount, value)
                       > s.assetConfigMap[position.assetToken].minCollateralRatio]

\* isValidPostion: ok = FALSE is the revert of the division by zero.
isValidPostion(s, position, assetPrice) ==
  LET value == multiplyDecimal(position.assetAmount, assetPrice)
  IN IF value = 0 THEN [ok |-> FALSE, valid |-> FALSE]
     ELSE [ok |-> TRUE,
           valid |-> divideDecimal(position.collateralAmount, value)
                       >= s.assetConfigMap[position.assetToken].minCollateralRatio]

\* cappedLiquidateAmount without the cap by what the collateral buys.
cappedLiquidateAmountNoCollateralCap(liquidateAssetAmount, maxLiquidateAssetAmount, assetAmount) ==
  Min(liquidateAssetAmount, assetAmount)

\* cappedLiquidateAmount without the cap by the position's debt.
cappedLiquidateAmountNoDebtCap(liquidateAssetAmount, maxLiquidateAssetAmount, assetAmount) ==
  Min(liquidateAssetAmount, maxLiquidateAssetAmount)

\* The liquidated quantity (lines 364-369): the requested one, capped by what the
\* collateral buys and by the position's debt.
cappedLiquidateAmount(liquidateAssetAmount, maxLiquidateAssetAmount, assetAmount) ==
  Min(Min(liquidateAssetAmount, maxLiquidateAssetAmount), assetAmount)

\* auction that refuses a price last updated before now - priceExpireTime.
auctionFreshOnly(s, sender, positionIndex, liquidateAssetAmount, deny) ==
  LET position == s.idxPositionMap[positionIndex]
      assetConfig == s.assetConfigMap[position.assetToken]
      assetPrice == s.oraclePrice[position.assetToken]
      v == isValidPostion(s, position, assetPrice)
      discountedPrice == divideDecimal(assetPrice, unit - assetConfig.auctionDiscount)
      maxLiquidateAssetAmount == divideDecimal(position.collateralAmount, discountedPrice)
      q == cappedLiquidateAmount(liquidateAssetAmount, maxLiquidateAssetAmount,
                                 position.assetAmount)
      t0 == tokenTransfer(s, position.assetToken, sender, "this", q, deny)
      returnCollateralAmount == multiplyDecimal(q, discountedPrice)
      newPosition == [position EXCEPT !.collateralAmount = @ - returnCollateralAmount,
                                      !.assetAmount = @ - q]
      \* the transfer of the left collateral to the owner: its result is not read
      tr == tokenTransfer(t0.st, position.collateralToken, "this", position.owner,
                          newPosition.collateralAmount, deny)
      toOwner == newPosition.collateralAmount # 0 /\ newPosition.assetAmount = 0
      s1 == IF newPosition.collateralAmount = 0 THEN removePosition(t0.st, positionIndex)
            ELSE IF newPosition.assetAmount = 0 THEN removePosition(tr.st, positionIndex)
            ELSE [t0.st EXCEPT !.idxPositionMap[positionIndex] = newPosition]
      protocolFee == multiplyDecimal(returnCollateralAmount, s.protocolFeeRate)
      t1 == tokenTransfer(s1, position.collateralToken, "this", s.collector, protocolFee, deny)
      t2 == tokenTransfer(t1.st, position.collateralToken, "this", sender,
                          returnCollateralAmount - protocolFee, deny)
  IN IF s.oracleTime[position.assetToken] < s.now - s.priceExpireTime THEN Fail(s)
     ELSE IF ~v.ok THEN Fail(s)
     ELSE IF v.valid THEN Fail(s)
     ELSE IF assetConfig.auctionDiscount > unit THEN Fail(s)
     ELSE IF unit - assetConfig.auctionDiscount = 0 THEN Fail(s)
     ELSE IF discountedPrice = 0 THEN Fail(s)
     ELSE IF t0.ret # "true" THEN FailTransfer(t0.st, t0.ret)
     ELSE IF toOwner /\ tr.ret = "revert" THEN Fail(t0.st)
     ELSE IF protocolFee > returnCollateralAmount THEN Fail(s1)
     ELSE IF t1.ret # "true" THEN FailTransfer(t1.st, t1.ret)
     ELSE IF t2.ret # "true" THEN FailTransfer(t2.st, t2.ret)
     ELSE Done(t2.st, [NoLast EXCEPT !.pre = position, !.q = q,
                                     !.gross = returnCollateralAmount, !.fee = protocolFee,
                                     !.residual = IF toOwner /\ tr.ret = "true"
                                                  THEN newPosition.collateralAmount ELSE 0,
                                     !.falseRet = toOwner /\ tr.ret = "false"])

auction(s, sender, positionIndex, liquidateAssetAmount, deny) ==
  LET position == s.idxPositionMap[positionIndex]
      assetConfig == s.assetConfigMap[position.assetToken]
      assetPrice == s.oraclePrice[position.assetToken]
      v == isValidPostion(s, position, assetPrice)
      discountedPrice == divideDecimal(assetPrice, unit - assetConfig.auctionDiscount)
      maxLiquidateAssetAmount == divideDecimal(position.collateralAmount, discountedPrice)
      q == cappedLiquidateAmount(liquidateAssetAmount, maxLiquidateAssetAmount,
                                 position.assetAmount)
      t0 == tokenTransfer(s, position.assetToken, sender, "this", q, deny)
      returnCollateralAmount == multiplyDecimal(q, discountedPrice)
      newPosition == [position EXCEPT !.collateralAmount = @ - returnCollateralAmount,
                                      !.assetAmount = @ - q]
      \* the transfer of the left collateral to the owner: its result is not read
      tr == tokenTransfer(t0.st, position.collateralToken, "this", position.owner,
                          newPosition.collateralAmount, deny)
      toOwner == newPosition.collateralAmount # 0 /\ newPosition.assetAmount = 0
      s1 == IF newPosition.collateralAmount = 0 THEN removePosition(t0.st, positionIndex)
            ELSE IF newPosition.assetAmount = 0 THEN removePosition(tr.st, positionIndex)
            ELSE [t0.st EXCEPT !.idxPositionMap[positionIndex] = newPosition]
      protocolFee == multiplyDecimal(returnCollateralAmount, s.protocolFeeRate)
      t1 == tokenTransfer(s1, position.collateralToken, "this", s.collector, protocolFee, deny)
      t2 == tokenTransfer(t1.st, position.collateralToken, "this", sender,
                          returnCollateralAmount - protocolFee, deny)
  IN IF ~v.ok THEN Fail(s)
     ELSE IF v.valid THEN Fail(s)
     ELSE IF assetConfig.auctionDiscount > unit THEN Fail(s)
     ELSE IF unit - assetConfig.auctionDiscount = 0 THEN Fail(s)
     ELSE IF discountedPrice = 0 THEN Fail(s)
     ELSE IF t0.ret # "true" THEN FailTransfer(t0.st, t0.ret)
     ELSE IF toOwner /\ tr.ret = "revert" THEN Fail(t0.st)
     ELSE IF protocolFee > returnCollateralAmount THEN Fail(s1)
     ELSE IF t1.ret # "true" THEN FailTransfer(t1.st, t1.ret)
     ELSE IF t2.ret # "true" THEN FailTransfer(t2.st, t2.ret)
     ELSE Done(t2.st, [NoLast EXCEPT !.pre = position, !.q = q,
                                     !.gross = returnCollateralAmount, !.fee = protocolFee,
                                     !.residual = IF toOwner /\ tr.ret = "true"
                                                  THEN newPosition.collateralAmount ELSE 0,
                                     !.falseRet = toOwner /\ tr.ret = "false"])

\* ----------------------------------------------------------------- queries
\* queryInvalidPositioins' loop from array position i on (lines 331-342). The
\* result arrays are allocated with length 0 (lines 322-327), so the write of a
\* found position at `index` is out of bounds and reverts; isValidPostion reverts
\* on its division by zero.
RECURSIVE invalidLoop(_, _, _, _, _, _)
invalidLoop(s, asset, assetPrice, i, positionIdxes, index) ==
  IF i > Len(s.postionIdxArray) THEN [ok |-> TRUE, positionIdxes |-> positionIdxes]
  ELSE LET position == s.idxPositionMap[s.postionIdxArray[i]]
           v == isValidPostion(s, position, assetPrice)
       IN IF position.assetToken # asset
            THEN invalidLoop(s, asset, assetPrice, i + 1, positionIdxes, index)
          ELSE IF ~v.ok THEN [ok |-> FALSE, positionIdxes |-> <<>>]
          ELSE IF v.valid
            THEN invalidLoop(s, asset, assetPrice, i + 1, positionIdxes, index)
          ELSE IF index + 1 > Len(positionIdxes) THEN [ok |-> FALSE, positionIdxes |-> <<>>]
          ELSE invalidLoop(s, asset, assetPrice, i + 1,
                           [positionIdxes EXCEPT ![index + 1] = position.idx], index + 1)

\* queryInvalidPositioins(asset): ok = FALSE is a revert.
queryInvalidPositioins(s, asset) ==
  LET assetPrice == s.oraclePrice[asset]
  IN IF assetPrice > 0 THEN invalidLoop(s, asset, assetPrice, 1, <<>>, 0)
     ELSE [ok |-> TRUE, positionIdxes |-> <<>>]

\* The loop of queryPositions (lines 481-492) from array position i on: out is
\* the six result arrays as one array of records, index the next free slot.
RECURSIVE positionsLoop(_, _, _, _, _, _)
positionsLoop(s, owner, assetToken, i, out, index) ==
  IF i > Len(s.postionIdxArray) THEN out
  ELSE LET position == s.idxPositionMap[s.postionIdxArray[i]]
       IN IF (position.owner = owner \/ owner = Zero)
             /\ (position.assetToken = assetToken \/ assetToken = Zero)
          THEN positionsLoop(s, owner, assetToken, i + 1,
                             [out EXCEPT ![index + 1] = position], index + 1)
          ELSE positionsLoop(s, owner, assetToken, i + 1, out, index)

\* queryPositions(owner, assetToken): arrays as long as postionIdxArray, the
\* matching positions first, the rest left zero.
queryPositions(s, owner, assetToken) ==
  positionsLoop(s, owner, assetToken, 1,
                [k \in 1..Len(s.postionIdxArray) |-> ZeroPosition], 0)

\* The loop of queryAllPositions (lines 451-462).
RECURSIVE allPositionsLoop(_, _, _, _, _)
allPositionsLoop(s, owner, i, out, index) ==
  IF i > Len(s.postionIdxArray) THEN out
  ELSE LET position == s.idxPositionMap[s.postionIdxArray[i]]
       IN IF position.owner = owner
          THEN allPositionsLoop(s, owner, i + 1, [out EXCEPT ![index + 1] = position], index + 1)
          ELSE allPositionsLoop(s, owner, i + 1, out, index)

\* queryAllPositions(owner): ok = FALSE is the revert for the zero address.
queryAllPositions(s, owner) ==
  IF owner = Zero THEN [ok |-> FALSE, out |-> <<>>]
  ELSE [ok |-> TRUE,
        out |-> allPositionsLoop(s, owner, 1,
                                 [k \in 1..Len(s.postionIdxArray) |-> ZeroPosition], 0)]

queryAssetConfig(s, assetToken) ==
  LET m == s.assetConfigMap[assetToken]
  IN [auctionDiscount |-> m.auctionDiscount, minCollateralRatio |-> m.minCollateralRatio,
      endPrice |-> m.endPrice]

queryPosition(s, positionIndex) ==
  LET m == s.idxPositionMap[positionIndex]
  IN [positionOwner |-> m.owner, collateralToken |-> m.collateralToken,
      collateralAmount |-> m.collateralAmount, assetToken |-> m.assetToken,
      assetAmount |-> m.assetAmount]

queryPositionIndex(s, postionOwner, collateralToken, assetToken) ==
  s.ownerPositionIndex[<<postionOwner, collateralToken, assetToken>>]

\* ------------------------------------------------------------ input domains
Deny == {"none", "alice", "bob", "collector"}
Discounts == {2, 5}
Ratios == {15}
EndPrices == {20}
Prices == {0, 10, 11, 20}
OpenAmounts == {30}
OpenRatios == {15, 30}
Amounts == {15}
MintAmounts == {5}
LiquidateAmounts == {5, 100}

\* --------------------------------------------------------------------- Init
\* The state after initialize(factory, oracle, collector, baseToken, 0.1, 1): no
\* asset, no position. The users hold collateral, and bob holds some of the
\* asset (bought on the market, where the deployer sold its initial supply).
InitWith(aliceBase, bobBase, bobAsset, assetPrice) ==
  /\ factory = "factory"
  /\ collector = "collector"
  /\ baseToken = "BUSD"
  /\ protocolFeeRate = 1
  /\ priceExpireTime = 1
  /\ assetConfigMap = [a \in Address |-> ZeroConfig]
  /\ assetTokenArray = <<>>
  /\ idxPositionMap = [i \in 0..(MaxPositions + 1) |-> ZeroPosition]
  /\ postionIdxArray = <<>>
  /\ currentpositionIndex = 1
  /\ ownerPositionIndex = [k \in Users \X Tokens \X Tokens |-> 0]
  /\ bal = [tk \in Tokens |-> [a \in Accounts |->
              IF tk = "BUSD" THEN (IF a = "alice" THEN aliceBase
                                   ELSE IF a = "bob" THEN bobBase ELSE 0)
              ELSE (IF a = "bob" THEN bobAsset ELSE 0)]]
  /\ minted = [tk \in Tokens |-> 0]
  /\ burned = [tk \in Tokens |-> 0]
  /\ oraclePrice = [a \in Address |-> IF a = "kX" THEN assetPrice ELSE 0]
  /\ oracleTime = [a \in Address |-> IF a = "kX" THEN 2 ELSE 0]
  /\ now = 2
  /\ calls = 0
  /\ moved = FALSE
  /\ last = NoLast

Init == InitWith(60, 30, 40, unit)

\* Commit without the rollback: a failed call keeps what it wrote before failing.
CommitNoRollback(r, op, sender, positionIndex, amount) ==
  LET f == r.st
  IN /\ r.ok => calls < MaxCalls
     /\ calls' = IF r.ok THEN calls + 1 ELSE calls
     /\ factory' = f.factory
     /\ collector' = f.collector
     /\ baseToken' = f.baseToken
     /\ protocolFeeRate' = f.protocolFeeRate
     /\ priceExpireTime' = f.priceExpireTime
     /\ assetConfigMap' = f.assetConfigMap
     /\ assetTokenArray' = f.assetTokenArray
     /\ idxPositionMap' = f.idxPositionMap
     /\ postionIdxArray' = f.postionIdxArray
     /\ currentpositionIndex' = f.currentpositionIndex
     /\ ownerPositionIndex' = f.ownerPositionIndex
     /\ bal' = f.bal
     /\ minted' = f.minted
     /\ burned' = f.burned
     /\ last' = IF r.ok
                THEN [r.out EXCEPT !.op = op, !.sender = sender,
                                   !.idx = positionIndex, !.amount = amount]
                ELSE [r.out EXCEPT !.op = op, !.ok = FALSE, !.dirty = (r.st # St)]
     /\ UNCHANGED <<envVars, moved>>

\* A call returns: a revert leaves the contract state as it was before the call.
Commit(r, op, sender, positionIndex, amount) ==
  LET f == IF r.ok THEN r.st ELSE St
  IN /\ r.ok => calls < MaxCalls
     /\ calls' = IF r.ok THEN calls + 1 ELSE calls
     /\ factory' = f.factory
     /\ collector' = f.collector
     /\ baseToken' = f.baseToken
     /\ protocolFeeRate' = f.protocolFeeRate
     /\ priceExpireTime' = f.priceExpireTime
     /\ assetConfigMap' = f.assetConfigMap
     /\ assetTokenArray' = f.assetTokenArray
     /\ idxPositionMap' = f.idxPositionMap
     /\ postionIdxArray' = f.postionIdxArray
     /\ currentpositionIndex' = f.currentpositionIndex
     /\ ownerPositionIndex' = f.ownerPositionIndex
     /\ bal' = f.bal
     /\ minted' = f.minted
     /\ burned' = f.burned
     /\ last' = IF r.ok
                THEN [r.out EXCEPT !.op = op, !.sender = sender,
                                   !.idx = positionIndex, !.amount = amount]
                ELSE [r.out EXCEPT !.op = op, !.ok = FALSE, !.dirty = (r.st # St)]
     /\ UNCHANGED <<envVars, moved>>

\* A call that succeeds.
Call(r, op, sender, positionIndex, amount) ==
  r.ok /\ Commit(r, op, sender, positionIndex, amount)

\* ------------------------------------------------------------------ actions
RegisterAssetWith(discounts, ratios) ==
  \E sender \in Privileged, d \in discounts, m \in ratios :
    Call(registerAsset(St, sender, "kX", d, m), "registerAsset", sender, 0, 0)

UpdateAsset ==
  \E sender \in Privileged, d \in Discounts, m \in Ratios :
    Call(updateAsset(St, sender, "kX", d, m), "updateAsset", sender, 0, 0)

RegisterMigrationWith(endPrices) ==
  \E sender \in Privileged, e \in endPrices :
    Call(registerMigration(St, sender, "kX", e), "registerMigration", sender, 0, e)

RegisterMigration == RegisterMigrationWith(EndPrices)

OpenPositionWith(amounts, ratios) ==
  /\ currentpositionIndex <= MaxPositions
  /\ \E sender \in Users, amount \in amounts, ratio \in ratios :
       Call(openPosition(St, sender, "BUSD", amount, "kX", ratio, "none"),
            "openPosition", sender, currentpositionIndex, amount)

Deposit ==
  \E sender \in Users, i \in PositionIdx, amount \in Amounts :
    Call(deposit(St, sender, i, "BUSD", amount, "none"), "deposit", sender, i, amount)

Withdraw ==
  \E sender \in Users, i \in PositionIdx, amount \in Amounts :
    Call(withdraw(St, sender, i, "BUSD", amount, "none"), "withdraw", sender, i, amount)

MintAsset ==
  \E sender \in Users, i \in PositionIdx, amount \in MintAmounts :
    Call(mint(St, sender, i, "kX", amount), "mint", sender, i, amount)

\* hook: the collateral token calls the recipient back while it is paid.
ClosePosition ==
  \E sender \in Users, i \in PositionIdx, hook \in BOOLEAN :
    Call(closePosition(St, sender, i, "none", hook), "closePosition", sender, i, 0)

\* deny: the account the collateral token refuses (its transfer returns false).
AuctionWith(amounts, denied) ==
  \E sender \in Users, i \in PositionIdx, amount \in amounts, deny \in denied :
    Call(auction(St, sender, i, amount, deny), "auction", sender, i, amount)

\* The oracle's feeder publishes a price for the asset.
SetPriceWith(prices) ==
  \E p \in prices :
    /\ calls < MaxCalls
    /\ calls' = calls + 1
    /\ oraclePrice' = [oraclePrice EXCEPT !["kX"] = p]
    /\ oracleTime' = [oracleTime EXCEPT !["kX"] = now]
    /\ moved' = (moved \/ (p # oraclePrice["kX"]
                             /\ \E i \in PositionIdx : idxPositionMap[i] # ZeroPosition))
    /\ last' = [NoLast EXCEPT !.op = "setPrice"]
    /\ UNCHANGED <<stVars, now>>

\* Time passes.
Tick ==
  /\ now < MaxTime
  /\ calls < MaxCalls
  /\ calls' = calls + 1
  /\ now' = now + 1
  /\ last' = [NoLast EXCEPT !.op = "tick"]
  /\ UNCHANGED <<stVars, oraclePrice, oracleTime, moved>>

RegisterAsset == RegisterAssetWith(Discounts, Ratios)
OpenPosition == OpenPositionWith(OpenAmounts, OpenRatios)
Auction == AuctionWith(LiquidateAmounts, Deny)
SetPrice == SetPriceWith(Prices)

\* The ledger: one asset is registered, positions are opened, adjusted, closed
\* and liquidated while the oracle's price moves.
Next ==
  \/ RegisterAsset
  \/ OpenPosition \/ Deposit \/ Withdraw \/ MintAsset \/ ClosePosition \/ Auction
  \/ SetPrice

Spec == Init /\ [][Next]_vars

\* Every call, the failing ones too: a call that reverts is a step that changes
\* only `last`.
Reverts(r, op) == ~r.ok /\ Commit(r, op, Zero, 0, 0)

BadDiscounts == {2, unit + 1}
BadRatios == {15, unit - 1}
AnyAmounts == Amounts \cup {0}
FailDeny == {"none", "collector"}

RegisterAssetReverts ==
  \E sender \in {"factory", "alice"}, tk \in {"kX", Zero}, d \in BadDiscounts, m \in BadRatios :
    Reverts(registerAsset(St, sender, tk, d, m), "registerAsset")

UpdateAssetReverts ==
  \E sender \in {"factory", "alice"}, tk \in {"kX", Zero}, d \in BadDiscounts, m \in BadRatios :
    Reverts(updateAsset(St, sender, tk, d, m), "updateAsset")

RegisterMigrationReverts ==
  \E sender \in {"factory", "alice"}, tk \in {"kX", Zero}, e \in EndPrices :
    Reverts(registerMigration(St, sender, tk, e), "registerMigration")

OpenPositionReverts ==
  /\ currentpositionIndex <= MaxPositions
  /\ \E sender \in Users, ct \in Tokens, amount \in OpenAmounts \cup {0}, tk \in Tokens,
        ratio \in {15, unit}, deny \in FailDeny :
       Reverts(openPosition(St, sender, ct, amount, tk, ratio, deny), "openPosition")

DepositReverts ==
  \E sender \in Users, i \in 0..MaxPositions, tk \in Tokens, amount \in AnyAmounts, deny \in FailDeny :
    Reverts(deposit(St, sender, i, tk, amount, deny), "deposit")

WithdrawReverts ==
  \E sender \in Users, i \in 0..MaxPositions, tk \in Tokens, amount \in AnyAmounts, deny \in FailDeny :
    Reverts(withdraw(St, sender, i, tk, amount, deny), "withdraw")

MintAssetReverts ==
  \E sender \in Users, i \in 0..MaxPositions, tk \in Tokens, amount \in MintAmounts \cup {0} :
    Reverts(mint(St, sender, i, tk, amount), "mint")

ClosePositionReverts ==
  \E sender \in Users, i \in 0..MaxPositions, deny \in FailDeny, hook \in BOOLEAN :
    Reverts(closePosition(St, sender, i, deny, hook), "closePosition")

AuctionReverts ==
  \E sender \in Users, i \in 0..MaxPositions, amount \in {0, 100}, deny \in FailDeny :
    Reverts(auction(St, sender, i, amount, deny), "auction")

NextAll ==
  \/ RegisterAssetWith({2}, Ratios) \/ RegisterMigration
  \/ OpenPositionWith(OpenAmounts, {15}) \/ Deposit
  \/ ClosePosition \/ AuctionWith({100}, {"none"}) \/ SetPriceWith({11})
  \/ RegisterAssetReverts \/ UpdateAssetReverts \/ RegisterMigrationReverts
  \/ OpenPositionReverts \/ DepositReverts \/ WithdrawReverts \/ MintAssetReverts
  \/ ClosePositionReverts \/ AuctionReverts

SpecAll == Init /\ [][NextAll]_vars

\* The registry: the factory or the owner registers, updates and migrates the
\* asset (an endPrice of 0 included) while positions are opened and adjusted, and
\* their calls with a discount above 1 or a ratio below 1, or for an asset
\* already registered, revert.
AnyEndPrices == EndPrices \cup {0}

RegisterAssetRefused ==
  \E sender \in Privileged, d \in BadDiscounts, m \in BadRatios :
    Reverts(registerAsset(St, sender, "kX", d, m), "registerAsset")

UpdateAssetRefused ==
  \E sender \in Privileged, d \in BadDiscounts, m \in BadRatios :
    Reverts(updateAsset(St, sender, "kX", d, m), "updateAsset")

NextRegistry ==
  \/ RegisterAssetWith({2}, Ratios) \/ UpdateAsset \/ RegisterMigrationWith(AnyEndPrices)
  \/ OpenPosition \/ Deposit \/ Withdraw \/ MintAsset \/ ClosePosition
  \/ AuctionWith({100}, {"none"}) \/ SetPriceWith({11})
  \/ RegisterAssetRefused \/ UpdateAssetRefused

SpecRegistry == Init /\ [][NextRegistry]_vars

\* Liquidation under every discount the registry accepts, exactly 1 included.
AcceptedDiscounts == {2, unit}

NextDiscount ==
  \/ RegisterAssetWith(AcceptedDiscounts, Ratios)
  \/ OpenPosition
  \/ SetPrice
  \/ Auction

SpecDiscount == Init /\ [][NextDiscount]_vars

\* Governance changes the fee rate while positions are opened, reduced, closed
\* and liquidated.
FeeRates == {0, 1, unit, unit + 1}

UpdateConfig ==
  \E sender \in Privileged, rate \in FeeRates :
    Call(updateConfig(St, sender, factory, collector, baseToken, rate, priceExpireTime),
         "updateConfig", sender, 0, rate)

NextConfig ==
  \/ RegisterAssetWith({2}, Ratios)
  \/ UpdateConfig
  \/ OpenPosition
  \/ Withdraw \/ ClosePosition
  \/ AuctionWith(LiquidateAmounts, {"none"})
  \/ SetPriceWith({11})

SpecConfig == Init /\ [][NextConfig]_vars

\* Liquidation under an ageing price: time passes (uncounted, up to MaxTime)
\* without the oracle being updated.
TimePasses ==
  /\ now < MaxTime
  /\ now' = now + 1
  /\ last' = [NoLast EXCEPT !.op = "tick"]
  /\ UNCHANGED <<stVars, oraclePrice, oracleTime, moved, calls>>

NextStale ==
  \/ RegisterAssetWith({2}, Ratios)
  \/ OpenPosition
  \/ Withdraw \/ MintAsset
  \/ AuctionWith(LiquidateAmounts, {"none"})
  \/ SetPriceWith({11})
  \/ TimePasses

SpecStale == Init /\ [][NextStale]_vars

\* Repeated liquidation: once the asset is registered, positions are open and
\* the price has moved, bob calls auction(i, amount) with amount above every
\* assetAmount, again and again (these calls are not counted by `calls`).
LiveDiscount == 5
LivePrice == 20
FullAmount == 100

AuctionAgain(i) ==
  LET r == auction(St, "bob", i, FullAmount, "none")
      f == r.st
  IN /\ r.ok
     /\ factory' = f.factory
     /\ collector' = f.collector
     /\ baseToken' = f.baseToken
     /\ protocolFeeRate' = f.protocolFeeRate
     /\ priceExpireTime' = f.priceExpireTime
     /\ assetConfigMap' = f.assetConfigMap
     /\ assetTokenArray' = f.assetTokenArray
     /\ idxPositionMap' = f.idxPositionMap
     /\ postionIdxArray' = f.postionIdxArray
     /\ currentpositionIndex' = f.currentpositionIndex
     /\ ownerPositionIndex' = f.ownerPositionIndex
     /\ bal' = f.bal
     /\ minted' = f.minted
     /\ burned' = f.burned
     /\ last' = [r.out EXCEPT !.op = "auction", !.sender = "bob", !.idx = i,
                              !.amount = FullAmount]
     /\ UNCHANGED <<envVars, moved, calls>>

AuctionRepeatedly == \E i \in 1..MaxPositions : AuctionAgain(i)

NextLive ==
  \/ RegisterAssetWith({LiveDiscount}, Ratios)
  \/ OpenPositionWith(OpenAmounts, {15})
  \/ SetPriceWith({LivePrice})
  \/ AuctionRepeatedly

\* auction is called on every position for as long as it can succeed.
SpecLive ==
  Init /\ [][NextLive]_vars /\ \A i \in 1..MaxPositions : WF_vars(AuctionAgain(i))

\* Opening only: positions of several sizes are opened and closed while the
\* price moves.
SmallAmounts == {1, 15, 30}

NextOpen ==
  \/ RegisterAssetWith(Discounts, Ratios)
  \/ OpenPositionWith(SmallAmounts, OpenRatios)
  \/ SetPriceWith(Prices)
  \/ ClosePosition

SpecOpen == Init /\ [][NextOpen]_vars

\* The whole life of positions of several sizes, the smallest too small to mint
\* anything, while the price rises far above the collateral token's.
HighPrices == {20, 100}

NextLedger ==
  \/ RegisterAssetWith({2}, Ratios)
  \/ OpenPositionWith(SmallAmounts, OpenRatios)
  \/ Deposit \/ Withdraw \/ MintAsset \/ ClosePosition
  \/ AuctionWith(LiquidateAmounts, {"none"})
  \/ SetPriceWith(HighPrices)

SpecLedger == Init /\ [][NextLedger]_vars

\* Prices and time: positions are opened and adjusted while the oracle's price
\* changes, drops to zero, or grows old as time passes.
NextPrice ==
  \/ RegisterAssetWith({2}, Ratios)
  \/ OpenPosition \/ Withdraw \/ MintAsset
  \/ SetPrice \/ Tick

SpecPrice == Init /\ [][NextPrice]_vars

\* Small positions: a position with a small debt is opened, the asset's price
\* rises, and the owner withdraws.
NextWithdraw ==
  \/ RegisterAssetWith({2}, Ratios)
  \/ OpenPositionWith(Amounts, {30})
  \/ SetPriceWith({20, 100})
  \/ Deposit \/ Withdraw \/ ClosePosition

SpecWithdraw == Init /\ [][NextWithdraw]_vars

\* The scenario of the specification's section 8: asset X with minCollateralRatio
\* 1.5 and auctionDiscount 0.5, price(X) = 10, alice opens with 1500 of the base
\* token at ratio 1.5 (100 X are minted); then the price moves and the position
\* is auctioned.
ScenarioPrices == {100, 101, 110, 150, 200}
ScenarioLiquidate == {50, 100, 150}

InitScenario == InitWith(1500, 0, 100, 100)

NextScenario ==
  \/ RegisterAssetWith({5}, {15})
  \/ OpenPositionWith({1500}, {15})
  \/ SetPriceWith(ScenarioPrices)
  \/ AuctionWith(ScenarioLiquidate, {"none"})

SpecScenario == InitScenario /\ [][NextScenario]_vars

\* =================================================================== claims
Stored(i) == idxPositionMap[i] # ZeroPosition

\* The solvency predicate of the specification, in fixed point:
\* collateralAmount >= assetAmount * relativePrice * minCollateralRatio with
\* relativePrice = price(assetToken) / price(collateralToken).
Solvent(p) ==
  LET pa == readPrice(St, p.assetToken).price
      pc == readPrice(St, p.collateralToken).price
  IN pc # 0 /\ p.collateralAmount
                 >= multiplyDecimal(multiplyDecimal(p.assetAmount, divideDecimal(pa, pc)),
                                    assetConfigMap[p.assetToken].minCollateralRatio)

\* C1: as long as the price and the asset's configuration are those under which
\* the positions were opened, a successful withdraw leaves the position, if it
\* is still stored, with
\* collateralAmount >= assetAmount * relativePrice * minCollateralRatio.
C1_WithdrawKeepsSolvent ==
  (last.op = "withdraw" /\ ~moved /\ Stored(last.idx))
    => Solvent(idxPositionMap[last.idx])

\* C2: mint(index, assetToken, amount) succeeds only if
\* (assetAmount + amount) * relativePrice * minCollateralRatio <= collateralAmount.
C2_MintOnlyWithinRatio ==
  \A sender \in Users, i \in PositionIdx, amount \in MintAmounts :
    mint(St, sender, i, "kX", amount).ok
      => Solvent([idxPositionMap[i] EXCEPT !.assetAmount = @ + amount])

\* The position's collateral covers its debt at the oracle's asset price times
\* the minimum ratio, in exact arithmetic (the collateral is the base token).
SafeAtPrice(p) ==
  p.collateralAmount * unit * unit
    >= p.assetAmount * oraclePrice[p.assetToken]
         * assetConfigMap[p.assetToken].minCollateralRatio

\* C3: auction succeeds only on a stored position that is invalid at the
\* current asset price; on a valid position and on an index that stores no
\* position it fails, whoever calls.
C3_AuctionOnlyInvalid ==
  \A sender \in Users, i \in 0..MaxPositions, amount \in LiquidateAmounts, deny \in Deny :
    auction(St, sender, i, amount, deny).ok
      => (Stored(i) /\ ~SafeAtPrice(idxPositionMap[i]))

\* C3 witness: an auction by an account that is not the position's owner succeeded.
C3_Witness ==
  last.op = "auction" /\ last.sender # last.pre.owner /\ last.q > 0

\* C4: in a successful auction the liquidated quantity q is
\* min(requested, collateralAmount / discountedPrice, assetAmount) with
\* discountedPrice = assetPrice / (1 - auctionDiscount); q of the asset is
\* pulled from the caller, the collateral released is q * discountedPrice and at
\* most collateralAmount, and afterwards the position is removed or holds
\* exactly collateralAmount - q * discountedPrice and assetAmount - q.
C4_AuctionAmounts ==
  [][last'.op = "auction" =>
       LET p == idxPositionMap[last'.idx]
           discountedPrice == divideDecimal(oraclePrice[p.assetToken],
                                unit - assetConfigMap[p.assetToken].auctionDiscount)
           q == Min(Min(last'.amount, divideDecimal(p.collateralAmount, discountedPrice)),
                    p.assetAmount)
           released == multiplyDecimal(q, discountedPrice)
           p2 == idxPositionMap'[last'.idx]
       IN /\ released <= p.collateralAmount
          /\ bal'[p.assetToken]["this"] = bal[p.assetToken]["this"] + q
          /\ bal[p.collateralToken]["this"] - bal'[p.collateralToken]["this"]
               \in {released, p.collateralAmount}
          /\ \/ p2 = ZeroPosition
             \/ p2 = [p EXCEPT !.collateralAmount = @ - released, !.assetAmount = @ - q]
     ]_vars

\* C4 witness: an auction capped by the collateral left the position stored.
C4_Witness ==
  last.op = "auction" /\ 0 < last.q /\ last.q < last.amount
    /\ last.q < last.pre.assetAmount /\ Stored(last.idx)

\* The position of the scenario: 1500 of the base token against 100 X, under
\* minCollateralRatio 1.5 and auctionDiscount 0.5.
ScenarioPosition(p) ==
  /\ p.collateralToken = "BUSD" /\ p.collateralAmount = 1500
  /\ p.assetToken = "kX" /\ p.assetAmount = 100
  /\ assetConfigMap["kX"].minCollateralRatio = 15
  /\ assetConfigMap["kX"].auctionDiscount = 5

\* 1500 < 100 * newPrice * 1.5
ScenarioPriceRose == 1500 * unit * unit < 100 * oraclePrice["kX"] * 15

C6_RemovalPolicy ==
  [][(last'.op = "auction" /\ last'.ok) =>
       LET p == idxPositionMap[last'.idx]
           collateralAmount == p.collateralAmount - last'.gross
           assetAmount == p.assetAmount - last'.q
           toLiquidator == IF last'.sender = p.owner THEN last'.gross - last'.fee ELSE 0
           toCollector == IF collector = p.owner THEN last'.fee ELSE 0
           p2 == idxPositionMap'[last'.idx]
       IN IF collateralAmount = 0 THEN p2 = ZeroPosition
          ELSE IF assetAmount = 0
               THEN /\ p2 = ZeroPosition
                    /\ bal'[p.collateralToken][p.owner]
                         = bal[p.collateralToken][p.owner] + collateralAmount
                           + toLiquidator + toCollector
          ELSE p2 = [p EXCEPT !.collateralAmount = collateralAmount,
                              !.assetAmount = assetAmount]
     ]_vars

\* C7: in every state, whatever the caller, the arguments and the account the
\* token refuses, an operation in which a transfer or transferFrom returned
\* false does not succeed.
C7_FalseTransferAborts ==
  /\ \A sender \in Users, amount \in OpenAmounts, ratio \in OpenRatios, deny \in Deny :
       LET r == openPosition(St, sender, "BUSD", amount, "kX", ratio, deny)
       IN r.out.falseRet => ~r.ok
  /\ \A sender \in Users, i \in PositionIdx, amount \in Amounts, deny \in Deny :
       /\ LET r == deposit(St, sender, i, "BUSD", amount, deny) IN r.out.falseRet => ~r.ok
       /\ LET r == withdraw(St, sender, i, "BUSD", amount, deny) IN r.out.falseRet => ~r.ok
  /\ \A sender \in Users, i \in PositionIdx, deny \in Deny :
       LET r == closePosition(St, sender, i, deny, FALSE) IN r.out.falseRet => ~r.ok
  /\ \A sender \in Users, i \in PositionIdx, amount \in LiquidateAmounts, deny \in Deny :
       LET r == auction(St, sender, i, amount, deny) IN r.out.falseRet => ~r.ok

C9_NoInProgressStateSeen ==
  [][(last'.op = "closePosition" /\ last'.ok) =>
       LET p == idxPositionMap[last'.idx]
       IN /\ last'.nested = ZeroPosition
          /\ bal[p.collateralToken]["this"] - bal'[p.collateralToken]["this"]
               = p.collateralAmount
     ]_vars

\* C10: a successful closePosition was called by the owner of a stored position
\* with assetAmount > 0 and collateralAmount > 0; after it queryPosition(index)
\* returns the zero position and queryPositionIndex(owner, collateralToken,
\* assetToken) is not index.
C10_ClosePosition ==
  [][(last'.op = "closePosition" /\ last'.ok) =>
       LET p == idxPositionMap[last'.idx]
       IN /\ p.owner = last'.sender
          /\ p.assetAmount > 0
          /\ p.collateralAmount > 0
          /\ queryPosition(St', last'.idx)
               = [positionOwner |-> Zero, collateralToken |-> Zero, collateralAmount |-> 0,
                  assetToken |-> Zero, assetAmount |-> 0]
          /\ queryPositionIndex(St', p.owner, p.collateralToken, p.assetToken) # last'.idx
     ]_vars

\* C10 witness: the owner has closed a position and no position is stored at
\* its index.
C10_Witness ==
  /\ last.op = "closePosition" /\ last.ok
  /\ last.pre.owner = last.sender /\ last.pre.assetAmount > 0
  /\ idxPositionMap[last.idx] = ZeroPosition

\* C11: whatever the caller and the arguments, an openPosition that succeeds
\* stores at the returned index (the counter's value before the call) a position
\* owned by the caller with the given tokens and collateralAmount and with
\* assetAmount the quantity minted; and it succeeds only with collateralAmount > 0,
\* the asset registered with endPrice = 0 and collateralRatio >= minCollateralRatio.
C11_OpenPosition ==
  \A sender \in Users, collateralToken \in Address, collateralAmount \in SmallAmounts \cup {0},
     assetToken \in Address, collateralRatio \in OpenRatios \cup {unit} :
    LET r == openPosition(St, sender, collateralToken, collateralAmount, assetToken,
                          collateralRatio, "none")
        i == currentpositionIndex
        assetConfig == assetConfigMap[assetToken]
    IN r.ok =>
         /\ r.out.pre.idx = i
         /\ queryPosition(r.st, i)
              = [positionOwner |-> sender, collateralToken |-> collateralToken,
                 collateralAmount |-> collateralAmount, assetToken |-> assetToken,
                 assetAmount |-> r.st.minted[assetToken] - minted[assetToken]]
         /\ collateralAmount > 0
         /\ assetToken # Zero /\ assetConfig.token = assetToken
         /\ assetConfig.endPrice = 0
         /\ collateralRatio >= assetConfig.minCollateralRatio

\* C11 witness: a position has just been opened and is stored under the index
\* the call returned, owned by the caller, with the minted quantity as its debt.
C11_Witness ==
  /\ last.op = "openPosition" /\ last.ok
  /\ idxPositionMap[last.idx].owner = last.sender
  /\ idxPositionMap[last.idx].collateralAmount = last.amount
  /\ idxPositionMap[last.idx].assetAmount = last.q /\ last.q > 0

\* The price of a token as readPrice answers it.
PriceOf(token) == IF token = baseToken THEN unit ELSE oraclePrice[token]

\* C12 (as claimed): a successful openPosition mints
\* floor(collateralAmount * (price(collateralToken) / price(assetToken)) / collateralRatio),
\* truncated once at the end, and openPosition fails when that is 0.
C12_MintAmountExact ==
  \A sender \in Users, collateralToken \in Tokens, collateralAmount \in SmallAmounts,
     collateralRatio \in OpenRatios :
    LET r == openPosition(St, sender, collateralToken, collateralAmount, "kX",
                          collateralRatio, "none")
        exact == (collateralAmount * PriceOf(collateralToken) * unit)
                   \div (PriceOf("kX") * collateralRatio)
    IN r.ok => (r.st.minted["kX"] - minted["kX"] = exact /\ exact > 0)

\* C12 (amended): a successful openPosition mints the amount computed in fixed
\* point with a truncation at each of the three steps (relative price, product,
\* quotient); that amount is positive and never above the exact quotient.
C12_MintAmountTruncated ==
  \A sender \in Users, collateralToken \in Tokens, collateralAmount \in SmallAmounts,
     collateralRatio \in OpenRatios :
    LET r == openPosition(St, sender, collateralToken, collateralAmount, "kX",
                          collateralRatio, "none")
        relativePrice == (PriceOf(collateralToken) * unit) \div PriceOf("kX")
        mintAmount == (((collateralAmount * relativePrice) \div unit) * unit)
                        \div collateralRatio
        exact == (collateralAmount * PriceOf(collateralToken) * unit)
                   \div (PriceOf("kX") * collateralRatio)
    IN r.ok => /\ r.st.minted["kX"] - minted["kX"] = mintAmount
               /\ r.st.idxPositionMap[currentpositionIndex].assetAmount = mintAmount
               /\ mintAmount > 0
               /\ mintAmount <= exact

\* C12 witness: a position was opened whose minted amount is below the exact
\* quotient because of the intermediate truncations.
C12_Witness ==
  /\ last.op = "openPosition" /\ last.ok /\ last.q > 0
  /\ \E collateralRatio \in OpenRatios :
       LET relativePrice == (PriceOf(last.pre.collateralToken) * unit) \div PriceOf("kX")
           exact == (last.amount * PriceOf(last.pre.collateralToken) * unit)
                      \div (PriceOf("kX") * collateralRatio)
       IN /\ last.q = (((last.amount * relativePrice) \div unit) * unit) \div collateralRatio
          /\ last.q < exact

\* C13: right after a successful registerMigration of the asset its
\* minCollateralRatio is 1 and no openPosition on the asset, and no deposit or
\* mint on a position of the asset, succeeds, whoever calls and whatever the
\* arguments.
C13_MigrationBlocks ==
  [][(last'.op = "registerMigration" /\ last'.ok) =>
       /\ assetConfigMap'["kX"].minCollateralRatio = unit
       /\ \A sender \in Users, amount \in OpenAmounts, ratio \in OpenRatios \cup {unit} :
            ~openPosition(St', sender, "BUSD", amount, "kX", ratio, "none").ok
       /\ \A sender \in Users, i \in PositionIdx :
            idxPositionMap'[i].assetToken = "kX" =>
              /\ \A amount \in Amounts : ~deposit(St', sender, i, "BUSD", amount, "none").ok
              /\ \A amount \in MintAmounts : ~mint(St', sender, i, "kX", amount).ok
     ]_vars

\* C14: in every state an asset whose endPrice is not 0 has minCollateralRatio
\* exactly 1.
C14_EndPriceFreezesRatio ==
  \A a \in Address :
    assetConfigMap[a].endPrice # 0 => assetConfigMap[a].minCollateralRatio = unit

\* C15: an endPrice that is not 0 stays not 0 in every later state.
C15_MigrationIrreversible ==
  [][\A a \in Address :
       assetConfigMap[a].endPrice # 0 => assetConfigMap'[a].endPrice # 0]_vars

\* C16: a registerAsset for an asset whose config has a nonzero token fails, by
\* whomever and with whatever values it is called, and leaves the registry as it
\* was; and no step sets a nonzero token back to zero or to another token.
C16_RegisterTwiceFails ==
  [][/\ \A a \in Address :
          assetConfigMap[a].token # Zero => assetConfigMap'[a].token = assetConfigMap[a].token
     /\ \A sender \in Privileged \cup Users, tk \in Tokens, d \in BadDiscounts, m \in BadRatios :
          assetConfigMap[tk].token # Zero => ~registerAsset(St, sender, tk, d, m).ok
     /\ (last'.op = "registerAsset" /\ assetConfigMap["kX"].token # Zero) =>
          (~last'.ok /\ UNCHANGED <<assetConfigMap, assetTokenArray>>)
    ]_vars

\* C16 witness: the asset was first stored by updateAsset (discount 0.5, the one
\* successful call so far) and a registerAsset for it has failed.
C16_Witness ==
  /\ last.op = "registerAsset" /\ ~last.ok
  /\ calls = 1
  /\ assetConfigMap["kX"].token = "kX" /\ assetConfigMap["kX"].auctionDiscount = 5

\* Every registered asset has auctionDiscount <= 1 and minCollateralRatio >= 1.
RegistryInRange ==
  \A a \in Address :
    assetConfigMap[a].token # Zero =>
      (assetConfigMap[a].auctionDiscount <= unit /\ assetConfigMap[a].minCollateralRatio >= unit)

\* C17: every registered asset has auctionDiscount <= 1 and minCollateralRatio
\* >= 1 in every state; registerAsset and updateAsset with a discount above 1 or
\* a ratio below 1 fail, and a failed one leaves the registry unchanged.
C17_RegistryBounds ==
  [][/\ RegistryInRange /\ RegistryInRange'
     /\ \A sender \in Privileged, tk \in Tokens, d \in BadDiscounts, m \in BadRatios :
          (d > unit \/ m < unit) =>
            (~registerAsset(St, sender, tk, d, m).ok /\ ~updateAsset(St, sender, tk, d, m).ok)
     /\ (last'.op \in {"registerAsset", "updateAsset"} /\ ~last'.ok) =>
          UNCHANGED <<assetConfigMap, assetTokenArray>>
    ]_vars

\* C17 witness: the factory's or owner's updateAsset for the registered asset
\* has failed (its discount was above 1 or its ratio below 1).
C17_Witness ==
  /\ last.op = "updateAsset" /\ ~last.ok
  /\ assetConfigMap["kX"].token = "kX"
  /\ RegistryInRange

\* Values of auctionDiscount and minCollateralRatio that _saveAsset accepts.
GoodDiscounts == Discounts \cup {0, unit}
GoodRatios == Ratios \cup {unit}

\* C18: after a registerAsset or an updateAsset that succeeds, queryAssetConfig
\* returns the auctionDiscount and minCollateralRatio of the call, and the
\* endPrice stored before it.
C18_ConfigRoundTrip ==
  \A sender \in Privileged, d \in GoodDiscounts, m \in GoodRatios :
    LET r == registerAsset(St, sender, "kX", d, m)
        u == updateAsset(St, sender, "kX", d, m)
        expected == [auctionDiscount |-> d, minCollateralRatio |-> m,
                     endPrice |-> assetConfigMap["kX"].endPrice]
    IN /\ u.ok => queryAssetConfig(u.st, "kX") = expected
       /\ r.ok => queryAssetConfig(r.st, "kX") = expected

\* C18 witness: the asset has just been registered, after a migration had set
\* its endPrice, and the config holds the registered values and that endPrice.
C18_Witness ==
  /\ last.op = "registerAsset" /\ last.ok
  /\ queryAssetConfig(St, "kX")
       = [auctionDiscount |-> 2, minCollateralRatio |-> 15, endPrice |-> 20]

\* C19: a successful openPosition returns the counter's value, which no position
\* has had yet, and adds one to the counter; no other step, of a successful or
\* of a failed call, changes the counter; the counter is 1 until the first
\* position is opened and no index at or above the counter holds a position.
C19_IndexNeverReused ==
  [][/\ (last'.op = "openPosition" /\ last'.ok) =>
          /\ last'.idx = currentpositionIndex
          /\ currentpositionIndex' = currentpositionIndex + 1
          /\ idxPositionMap[last'.idx] = ZeroPosition
          /\ idxPositionMap'[last'.idx].idx = last'.idx
     /\ ~(last'.op = "openPosition" /\ last'.ok) => UNCHANGED currentpositionIndex
     /\ minted["kX"] = 0 => currentpositionIndex = 1
     /\ \A i \in DOMAIN idxPositionMap :
          i >= currentpositionIndex' => idxPositionMap'[i] = ZeroPosition
     /\ \A sender \in Users, i \in PositionIdx :
          /\ \A amount \in Amounts :
               LET r == withdraw(St, sender, i, "BUSD", amount, "none")
               IN r.ok => r.st.currentpositionIndex = currentpositionIndex
          /\ \A amount \in MintAmounts :
               LET r == mint(St, sender, i, "kX", amount)
               IN r.ok => r.st.currentpositionIndex = currentpositionIndex
     /\ \A sender \in Privileged, d \in Discounts, m \in Ratios :
          LET r == updateAsset(St, sender, "kX", d, m)
          IN r.ok => r.st.currentpositionIndex = currentpositionIndex
    ]_vars

\* C19 witness: position 1 was removed and the position opened after that got
\* index 2.
C19_Witness ==
  /\ last.op = "openPosition" /\ last.ok /\ last.idx = 2
  /\ idxPositionMap[1] = ZeroPosition
  /\ idxPositionMap[2].idx = 2
  /\ currentpositionIndex = 3

\* C20: in every state, deposit, withdraw, mint and closePosition on a stored
\* position fail when called by an account that is not its owner, whatever the
\* arguments; and one that succeeded was called by the owner.
C20_OwnerOnly ==
  /\ (last.op \in {"deposit", "withdraw", "mint", "closePosition"} /\ last.ok)
       => last.sender = last.pre.owner
  /\ \A sender \in Users, i \in PositionIdx :
       (Stored(i) /\ sender # idxPositionMap[i].owner) =>
         /\ \A tk \in Tokens, amount \in Amounts, deny \in FailDeny :
              /\ ~deposit(St, sender, i, tk, amount, deny).ok
              /\ ~withdraw(St, sender, i, tk, amount, deny).ok
         /\ \A tk \in Tokens, amount \in MintAmounts : ~mint(St, sender, i, tk, amount).ok
         /\ \A deny \in FailDeny, hook \in BOOLEAN : ~closePosition(St, sender, i, deny, hook).ok

\* C20 witness: the owner's deposit has succeeded while the other user, who
\* holds enough collateral, cannot deposit to the position.
C20_Witness ==
  /\ last.op = "deposit" /\ last.ok /\ last.sender = last.pre.owner
  /\ \E u \in Users :
       /\ u # last.pre.owner
       /\ bal["BUSD"][u] >= last.amount
       /\ ~deposit(St, u, last.idx, "BUSD", last.amount, "none").ok

\* The oracle's answer for a token other than the base token is unusable: zero,
\* or last updated before now - priceExpireTime.
Unusable(token) ==
  /\ token # baseToken
  /\ \/ oraclePrice[token] = 0
     \/ oracleTime[token] < now - priceExpireTime

\* C21: in every state, openPosition, withdraw and mint fail when the price of
\* the collateral token or of the asset token is zero or too old; the base token
\* reads as price 1 with the latest possible time whatever the oracle holds for
\* it, and with a usable asset price the relative price to the base token is
\* available.
C21_PriceGuards ==
  /\ \A sender \in Users, collateralToken \in Tokens, amount \in OpenAmounts,
        ratio \in OpenRatios :
       (Unusable(collateralToken) \/ Unusable("kX")) =>
          ~openPosition(St, sender, collateralToken, amount, "kX", ratio, "none").ok
  /\ \A sender \in Users, i \in PositionIdx :
       LET p == idxPositionMap[i]
       IN (Stored(i) /\ (Unusable(p.collateralToken) \/ Unusable(p.assetToken))) =>
            /\ \A amount \in Amounts :
                 ~withdraw(St, sender, i, p.collateralToken, amount, "none").ok
            /\ \A amount \in MintAmounts : ~mint(St, sender, i, p.assetToken, amount).ok
  /\ readPrice(St, baseToken) = [price |-> unit, lastUpdatedTime |-> MaxUint]
  /\ ~Unusable("kX") =>
       /\ queryPrice(St, baseToken, "kX").ok
       /\ queryPrice(St, "kX", baseToken).ok

\* C21 witness: a position is stored, the oracle holds no price for the base
\* token, and the asset's price, not zero, has grown too old.
C21_Witness ==
  /\ \E i \in PositionIdx : Stored(i) /\ idxPositionMap[i].collateralToken = baseToken
  /\ oraclePrice[baseToken] = 0
  /\ oraclePrice["kX"] > 0
  /\ oracleTime["kX"] < now - priceExpireTime

\* C22: in a successful withdraw, closePosition or auction the fee is
\* floor(gross * protocolFeeRate), with gross the withdrawn amount, the position's
\* collateralAmount, or the released collateral; the caller receives gross - fee
\* (and, as owner of an auctioned position, the residual), the collector the fee,
\* and the contract's collateral balance falls by gross plus the residual paid.
C22_ProtocolFee ==
  [][(last'.op \in {"withdraw", "closePosition", "auction"} /\ last'.ok) =>
       LET p == idxPositionMap[last'.idx]
           ct == p.collateralToken
           gross == IF last'.op = "withdraw" THEN last'.amount
                    ELSE IF last'.op = "closePosition" THEN p.collateralAmount
                    ELSE last'.gross
           fee == (gross * protocolFeeRate) \div unit
           toOwner == IF last'.sender = p.owner THEN last'.residual ELSE 0
       IN /\ last'.fee = fee
          /\ bal'[ct][last'.sender] = bal[ct][last'.sender] + (gross - fee) + toOwner
          /\ bal'[ct][collector] = bal[ct][collector] + fee
          /\ bal'[ct]["this"] = bal[ct]["this"] - gross - last'.residual
     ]_vars

\* C23: every stored position has collateralAmount > 0.
C23_CollateralPositive ==
  \A i \in DOMAIN idxPositionMap : Stored(i) => idxPositionMap[i].collateralAmount > 0

\* C24: right after a successful openPosition, mint or withdraw that leaves the
\* position stored, the position passes auction's validity check at the prices
\* and configuration of that moment.
C24_AcceptedIsNotLiquidatable ==
  [][(last'.op \in {"openPosition", "mint", "withdraw"} /\ last'.ok
        /\ idxPositionMap'[last'.idx] # ZeroPosition) =>
       LET p == idxPositionMap'[last'.idx]
           v == isValidPostion(St', p, oraclePrice'[p.assetToken])
       IN v.ok /\ v.valid
     ]_vars

\* The indices of the stored positions.
StoredIdx == {i \in DOMAIN idxPositionMap : Stored(i)}

\* C25: postionIdxArray holds the index of every stored position exactly once
\* and nothing else: no zero entry, and as many entries as stored positions.
C25_LiveIndexExact ==
  /\ \A k \in 1..Len(postionIdxArray) : postionIdxArray[k] \in StoredIdx
  /\ \A i \in StoredIdx : Cardinality({k \in 1..Len(postionIdxArray) : postionIdxArray[k] = i}) = 1
  /\ Len(postionIdxArray) = Cardinality(StoredIdx)

\* C26: for the asset, queryInvalidPositioins returns without reverting; with a
\* zero price nothing, and otherwise exactly the indices, each once, of the stored
\* positions of the asset whose collateralAmount / (assetAmount * price) is below
\* minCollateralRatio.
C26_QueryInvalid ==
  LET r == queryInvalidPositioins(St, "kX")
      invalid == {i \in StoredIdx : idxPositionMap[i].assetToken = "kX"
                                     /\ ~SafeAtPrice(idxPositionMap[i])}
  IN /\ r.ok
     /\ IF oraclePrice["kX"] = 0 THEN r.positionIdxes = <<>>
        ELSE /\ {r.positionIdxes[k] : k \in 1..Len(r.positionIdxes)} = invalid
             /\ Len(r.positionIdxes) = Cardinality(invalid)

\* C27: for every owner (or the zero address as wildcard) and every asset (or
\* the zero address as wildcard), the entries of queryPositions that carry a
\* position are the stored positions matching the filter, each once, and they
\* come first with no empty entry before or among them; for an owner other than
\* the zero address queryAllPositions returns what queryPositions returns with
\* the asset wildcard.
C27_QueryPositions ==
  \A owner \in Users \cup {Zero}, assetToken \in {"kX", Zero} :
    LET out == queryPositions(St, owner, assetToken)
        real == {k \in 1..Len(out) : out[k] # ZeroPosition}
        matching == {i \in StoredIdx :
                       /\ (idxPositionMap[i].owner = owner \/ owner = Zero)
                       /\ (idxPositionMap[i].assetToken = assetToken \/ assetToken = Zero)}
    IN /\ {out[k].idx : k \in real} = matching
       /\ Cardinality(real) = Cardinality(matching)
       /\ \A k \in real : out[k] = idxPositionMap[out[k].idx]
       /\ real = 1..Cardinality(real)
       /\ owner # Zero =>
            (queryAllPositions(St, owner).ok
               /\ queryAllPositions(St, owner).out = queryPositions(St, owner, Zero))

\* C28: a position stored before and after a step keeps its idx, owner,
\* collateralToken and assetToken; it changes at all only when the step is a
\* successful deposit, withdraw, mint or auction on that very position, and then
\* deposit and withdraw leave assetAmount, mint leaves collateralAmount alone
\* (auction may change both amounts).
C28_PositionFrame ==
  [][\A i \in 1..MaxPositions :
       (idxPositionMap[i] # ZeroPosition /\ idxPositionMap'[i] # ZeroPosition) =>
         LET p == idxPositionMap[i]
             q == idxPositionMap'[i]
         IN /\ q.idx = p.idx /\ q.owner = p.owner
            /\ q.collateralToken = p.collateralToken /\ q.assetToken = p.assetToken
            /\ q # p => /\ last'.ok /\ last'.idx = i
                        /\ last'.op \in {"deposit", "withdraw", "mint", "auction"}
            /\ last'.op \in {"deposit", "withdraw"} => q.assetAmount = p.assetAmount
            /\ last'.op = "mint" => q.collateralAmount = p.collateralAmount]_vars

\* A partial auction has changed both amounts of a position that stays stored,
\* next to another stored position.
C28_Witness ==
  /\ last.ok /\ last.op = "auction" /\ last.idx \in 1..MaxPositions
  /\ idxPositionMap[last.idx] # ZeroPosition
  /\ idxPositionMap[last.idx].collateralAmount # last.pre.collateralAmount
  /\ idxPositionMap[last.idx].assetAmount # last.pre.assetAmount
  /\ \E j \in 1..MaxPositions : j # last.idx /\ idxPositionMap[j] # ZeroPosition

\* C29: ownerPositionIndex changes only in a successful openPosition, which sets
\* the caller's entry for the pair to the new index, and in a successful
\* closePosition, which sets the entry of the closed position's owner and pair to
\* 0; every other step, deposit, withdraw, mint and auction among them, leaves
\* every entry as it was.
C29_SecondaryIndexFrame ==
  [][/\ ownerPositionIndex' # ownerPositionIndex =>
          last'.ok /\ last'.op \in {"openPosition", "closePosition"}
     /\ (last'.ok /\ last'.op = "openPosition") =>
          LET q == idxPositionMap'[last'.idx]
          IN ownerPositionIndex' =
               [ownerPositionIndex EXCEPT ![<<last'.sender, q.collateralToken, q.assetToken>>]
                                             = last'.idx]
     /\ (last'.ok /\ last'.op = "closePosition") =>
          LET p == idxPositionMap[last'.idx]
          IN ownerPositionIndex' =
               [ownerPositionIndex EXCEPT ![<<p.owner, p.collateralToken, p.assetToken>>] = 0]
    ]_vars

\* An auction has removed a position and the owner's entry for the pair still
\* names the removed index.
C29_Witness ==
  /\ last.ok /\ last.op = "auction" /\ last.idx \in 1..MaxPositions
  /\ idxPositionMap[last.idx] = ZeroPosition
  /\ last.pre.owner \in Users
  /\ queryPositionIndex(St, last.pre.owner, last.pre.collateralToken, last.pre.assetToken)
       = last.idx

\* C30 as stated: a successful closePosition(i) sets the entry of the position's
\* owner and pair to 0 only when it names i and otherwise leaves it, so a later
\* position j of the same owner and pair named by the entry is still named
\* after i is closed.
C30_ClearsOnlyWhenNamed ==
  [][(last'.ok /\ last'.op = "closePosition") =>
       LET p == idxPositionMap[last'.idx]
           before == queryPositionIndex(St, p.owner, p.collateralToken, p.assetToken)
       IN queryPositionIndex(St', p.owner, p.collateralToken, p.assetToken)
            = IF before = last'.idx THEN 0 ELSE before
    ]_vars

\* C30 amended: a successful closePosition(i) sets the entry of the position's
\* owner and pair to 0 whichever index it names; a position j of the same owner
\* and pair that stays stored is then not named by the entry, and is still
\* returned by queryPosition(j) and among queryPositions(owner, assetToken).
C30_CloseClearsEntry ==
  [][(last'.ok /\ last'.op = "closePosition") =>
       LET p == idxPositionMap[last'.idx]
       IN /\ queryPositionIndex(St', p.owner, p.collateralToken, p.assetToken) = 0
          /\ \A j \in 1..MaxPositions :
               (/\ idxPositionMap'[j] # ZeroPosition
                /\ idxPositionMap'[j].owner = p.owner
                /\ idxPositionMap'[j].collateralToken = p.collateralToken
                /\ idxPositionMap'[j].assetToken = p.assetToken) =>
                 /\ queryPosition(St', j).positionOwner = p.owner
                 /\ \E k \in 1..Len(postionIdxArray') :
                      queryPositions(St', p.owner, p.assetToken)[k] = idxPositionMap'[j]
    ]_vars

\* The owner opened a later position for the same pair and closed the earlier
\* one: the later position is stored and the entry is 0.
C30_Witness ==
  /\ last.ok /\ last.op = "closePosition" /\ last.pre.owner \in Users
  /\ \E j \in 1..MaxPositions :
       /\ j > last.idx
       /\ idxPositionMap[j] # ZeroPosition
       /\ idxPositionMap[j].owner = last.pre.owner
       /\ idxPositionMap[j].collateralToken = last.pre.collateralToken
       /\ idxPositionMap[j].assetToken = last.pre.assetToken
  /\ queryPositionIndex(St, last.pre.owner, last.pre.collateralToken, last.pre.assetToken) = 0

\* C31: assetTokenArray has no duplicates and holds exactly the assets whose
\* stored config has a non-zero token.
C31_AssetSetExact ==
  /\ \A j, k \in 1..Len(assetTokenArray) : assetTokenArray[j] = assetTokenArray[k] => j = k
  /\ {assetTokenArray[k] : k \in 1..Len(assetTokenArray)}
       = {a \in Address : assetConfigMap[a].token # Zero}

\* C32: for a stored position that isValidPostion finds invalid at a non-zero
\* price, and a caller holding the asset tokens, auction succeeds whatever
\* accepted auctionDiscount the asset has, paying for the liquidated quantity at
\* discountedPrice = assetPrice / (1 - auctionDiscount).
C32_AuctionAtEveryDiscount ==
  \A i \in StoredIdx, sender \in Users, amount \in LiquidateAmounts :
    LET p == idxPositionMap[i]
        assetConfig == assetConfigMap[p.assetToken]
        assetPrice == oraclePrice[p.assetToken]
        v == isValidPostion(St, p, assetPrice)
        r == auction(St, sender, i, amount, "none")
    IN (/\ assetPrice # 0 /\ v.ok /\ ~v.valid
        /\ assetConfig.auctionDiscount <= unit
        /\ bal[p.assetToken][sender] >= Min(amount, p.assetAmount)) =>
         /\ r.ok
         /\ r.out.gross = multiplyDecimal(r.out.q,
                            divideDecimal(assetPrice, unit - assetConfig.auctionDiscount))

\* Position i is stored, isValidPostion finds it invalid at the asset's non-zero
\* price, and bob holds at least its assetAmount of the asset.
Liquidatable(i) ==
  LET p == idxPositionMap[i]
      v == isValidPostion(St, p, oraclePrice[p.assetToken])
  IN /\ p # ZeroPosition
     /\ oraclePrice[p.assetToken] # 0 /\ v.ok /\ ~v.valid
     /\ bal[p.assetToken]["bob"] >= p.assetAmount

\* C33: under weak fairness of auction(i, amount >= assetAmount), with the price
\* and the configuration no longer changing, a stored invalid position whose
\* liquidator holds the tokens is eventually removed.
C33_InvalidEventuallyRemoved ==
  \A i \in 1..MaxPositions : Liquidatable(i) ~> (idxPositionMap[i] = ZeroPosition)

\* The sum of collateralAmount over the stored positions with index <= n and
\* collateralToken tk.
RECURSIVE SumCollateral(_, _)
SumCollateral(tk, n) ==
  IF n = 0 THEN 0
  ELSE SumCollateral(tk, n - 1)
         + (IF idxPositionMap[n] # ZeroPosition /\ idxPositionMap[n].collateralToken = tk
            THEN idxPositionMap[n].collateralAmount ELSE 0)

\* C34: the contract's balance of the collateral token (BUSD, the collateral of
\* every position here) equals the sum of collateralAmount over the stored
\* positions with that collateralToken.
C34_CollateralBacked ==
  bal["BUSD"]["this"] = SumCollateral("BUSD", MaxPositions)

\* C35: every stored position has assetAmount > 0; a successful withdraw leaves
\* its position stored, and a position stops being stored only in a successful
\* closePosition or auction.
C35_DebtPositive ==
  [][/\ \A i \in 1..MaxPositions :
          /\ idxPositionMap[i] # ZeroPosition => idxPositionMap[i].assetAmount > 0
          /\ idxPositionMap'[i] # ZeroPosition => idxPositionMap'[i].assetAmount > 0
          /\ (idxPositionMap[i] # ZeroPosition /\ idxPositionMap'[i] = ZeroPosition) =>
               (last'.ok /\ last'.op \in {"closePosition", "auction"})
     /\ (last'.ok /\ last'.op = "withdraw") =>
          (idxPositionMap[last'.idx] # ZeroPosition /\ idxPositionMap'[last'.idx] # ZeroPosition)
    ]_vars

\* A withdraw has taken the whole collateral of a position, which stays stored
\* with its debt.
C35_Witness ==
  /\ last.ok /\ last.op = "withdraw" /\ last.idx \in 1..MaxPositions
  /\ idxPositionMap[last.idx] # ZeroPosition
  /\ idxPositionMap[last.idx].collateralAmount = 0
  /\ idxPositionMap[last.idx].assetAmount > 0

\* The sum of assetAmount over the stored positions with index <= n and
\* assetToken tk.
RECURSIVE SumDebt(_, _, _)
SumDebt(positions, tk, n) ==
  IF n = 0 THEN 0
  ELSE SumDebt(positions, tk, n - 1)
         + (IF positions[n] # ZeroPosition /\ positions[n].assetToken = tk
            THEN positions[n].assetAmount ELSE 0)

\* C36: for the synthetic asset, minted - burned is never below the sum of
\* assetAmount over its stored positions, and a step that is not a successful
\* auction keeps the two equal when they were equal.
C36_SupplyCoversDebt ==
  [][LET net == minted["kX"] - burned["kX"]
         netAfter == minted'["kX"] - burned'["kX"]
         debt == SumDebt(idxPositionMap, "kX", MaxPositions)
         debtAfter == SumDebt(idxPositionMap', "kX", MaxPositions)
     IN /\ net >= debt
        /\ netAfter >= debtAfter
        /\ (net = debt /\ ~(last'.ok /\ last'.op = "auction")) => netAfter = debtAfter
    ]_vars

\* The state s with the oracle's lastUpdatedTime of the asset set to t.
UpdatedAt(s, t) == [s EXCEPT !.oracleTime["kX"] = t]

\* C37: in every state and for every lastUpdatedTime t the oracle could hold for
\* the asset instead, auction with the same arguments succeeds or fails alike
\* and, when it succeeds, leaves the same ledger and balances and makes the same
\* transfers; with t older than now - priceExpireTime, withdraw and mint on a
\* stored position fail.
C37_AuctionIgnoresPriceAge ==
  \A t \in 0..MaxTime, sender \in Users, i \in PositionIdx :
    /\ \A amount \in LiquidateAmounts :
         LET r == auction(St, sender, i, amount, "none")
             u == auction(UpdatedAt(St, t), sender, i, amount, "none")
         IN /\ u.ok = r.ok
            /\ u.out = r.out
            /\ r.ok => u.st = UpdatedAt(r.st, t)
    /\ (Stored(i) /\ t < now - priceExpireTime) =>
         /\ \A amount \in Amounts :
              ~withdraw(UpdatedAt(St, t), sender, i, "BUSD", amount, "none").ok
         /\ \A amount \in MintAmounts : ~mint(UpdatedAt(St, t), sender, i, "kX", amount).ok

\* An auction has succeeded at a price last updated before now -
\* priceExpireTime, where the owner's withdraw fails.
C37_Witness ==
  /\ last.ok /\ last.op = "auction"
  /\ oracleTime["kX"] < now - priceExpireTime
  /\ last.q > 0
  /\ \E i \in PositionIdx :
       /\ Stored(i)
       /\ auction(St, last.sender, i, last.amount, "none").ok
       /\ \A amount \in Amounts :
            ~withdraw(St, idxPositionMap[i].owner, i, "BUSD", amount, "none").ok

\* C38: protocolFeeRate <= 1 in every state, so the fee on the collateral of a
\* stored position is never above that collateral.
C38_FeeRateBounded ==
  /\ protocolFeeRate <= unit
  /\ \A i \in StoredIdx :
       multiplyDecimal(idxPositionMap[i].collateralAmount, protocolFeeRate)
         <= idxPositionMap[i].collateralAmount

\* C39: with protocolFeeRate = 0, a withdraw by the owner of a stored position,
\* of its collateral token, with 0 < amount <= collateralAmount and passing the
\* collateral-ratio require at a usable price, succeeds, pays the whole amount to
\* the caller and nothing to the collector.
C39_WithdrawAtZeroFee ==
  \A i \in StoredIdx, amount \in Amounts :
    LET p == idxPositionMap[i]
        rp == queryPrice(St, p.collateralToken, p.assetToken)
        r == withdraw(St, p.owner, i, p.collateralToken, amount, "none")
    IN (/\ protocolFeeRate = 0
        /\ amount <= p.collateralAmount
        /\ bal[p.collateralToken]["this"] >= amount
        /\ rp.ok
        /\ multiplyDecimal(multiplyDecimal(p.assetAmount, rp.price),
                           assetConfigMap[p.assetToken].minCollateralRatio)
             <= p.collateralAmount - amount) =>
         /\ r.ok
         /\ r.out.fee = 0
         /\ r.st.bal[p.collateralToken][p.owner] = bal[p.collateralToken][p.owner] + amount
         /\ r.st.bal[p.collateralToken][collector] = bal[p.collateralToken][collector]

====
